---------------------------- MODULE Spec2Model ----------------------------
(***************************************************************************)
(* Budget allocation core of game-launch-budget-optimization:              *)
(* src/opt/solve.py (solve_qp, OptimizationHistoryTracker,                 *)
(* build_objective_function, build_constraints, validate_solution) and     *)
(* src/features/curves.py (quad_conversions, quad_grad).                   *)
(*                                                                         *)
(* Numbers.  Spends and budgets are integers counted in units of 0.5e-6    *)
(* (half the validator's tolerance), curve parameters are integers, so     *)
(* every sum and product of the code is computed exactly.  The start       *)
(* vector x0, a quotient, is kept as numerators over the common            *)
(* denominator total_max.                                                  *)
(*                                                                         *)
(* scipy.optimize.minimize is a library the repository calls and does not  *)
(* contain.  It is modelled by what solve_qp can observe of it: it may     *)
(* raise on inconsistent bounds, it invokes the callback once per major    *)
(* iteration with an iterate, and it returns a result (success, x,         *)
(* message) about which nothing further is assumed.                        *)
(***************************************************************************)
EXTENDS Integers, Sequences, FiniteSets, TLC

VARIABLES
    benchmarks,      \* solve_qp argument: list of channel records
    total_budget,    \* solve_qp argument
    track_history,   \* solve_qp argument
    pc,              \* position of the call inside solve_qp
    formulation,     \* objective_fn / constraints / bounds (solve.py:87-88)
    x0,              \* initial guess (solve.py:91-92)
    tracker,         \* OptimizationHistoryTracker instance or None (solve.py:95-97)
    solver_calls,    \* number of times minimize has been invoked by this call
    majiter,         \* major iterations done by the running minimize
    result,          \* OptimizeResult returned by minimize
    status,          \* "running", "returned" or "raised"
    error,           \* exception type and text when status = "raised"
    returned,        \* value returned when status = "returned"
    candidate,       \* allocation of a direct validate_solution call
    verdict,         \* outcome of that call: "", "True", "False" or "KeyError"
    delivered,       \* iterates minimize has passed to callback= in this call
    oracle,          \* the behaviour of minimize, when it is held fixed
    other,           \* arguments and locals of a second solve_qp call
    obtained,        \* mapping a caller got from get_history()
    call,            \* arguments of a direct call of a helper function
    outcome          \* what that call returned or raised

callvars == <<pc, formulation, x0, tracker, solver_calls, majiter, result,
              status, error, returned, delivered>>

vars == <<benchmarks, total_budget, track_history, pc, formulation, x0, tracker,
          solver_calls, majiter, result, status, error, returned, candidate,
          verdict, delivered, oracle, other, obtained, call, outcome>>

-----------------------------------------------------------------------------
(* Bounds of the model *)

MaxChannels == 2
MaxIter == 2
MaxBudget == 5

(* tolerance = 1e-6 (solve.py:166); spends are counted in halves of it *)
tolerance == 2

-----------------------------------------------------------------------------
(* Input domains *)

\* Channel records the calls of the model are made with.  Besides two
\* ordinary channels there is a record that repeats the identifier "meta"
\* with min_spend > max_spend, and a channel whose max_spend is 0.
ChannelPool ==
    { [channel |-> "google", curve_a |-> 6, curve_b |-> 1, min_spend |-> 1, max_spend |-> 3],
      [channel |-> "meta",   curve_a |-> 4, curve_b |-> 1, min_spend |-> 0, max_spend |-> 2],
      [channel |-> "meta",   curve_a |-> 3, curve_b |-> 2, min_spend |-> 2, max_spend |-> 1],
      [channel |-> "tiktok", curve_a |-> 2, curve_b |-> 1, min_spend |-> 0, max_spend |-> 0] }

BenchmarkLists == UNION { [1..n -> ChannelPool] : n \in 0..MaxChannels }

Budgets == (0 - 1)..MaxBudget

\* Spend values a solver result is drawn from: every bound of the pool, and
\* up to tolerance + 1 below the least and above the greatest of them.
PoolLow == CHOOSE v \in { p.min_spend : p \in ChannelPool } :
               \A p \in ChannelPool : v <= p.min_spend

PoolHigh == CHOOSE v \in { p.max_spend : p \in ChannelPool } :
                \A p \in ChannelPool : p.max_spend <= v

SpendGrid == (PoolLow - tolerance - 1)..(PoolHigh + tolerance + 1)

Vectors(n) == [1..n -> SpendGrid]

-----------------------------------------------------------------------------
(* Arithmetic helpers *)

RECURSIVE SumSeq(_)
SumSeq(s) == IF s = <<>> THEN 0 ELSE Head(s) + SumSeq(Tail(s))

RECURSIVE SumValues(_, _)
\* sum(d.values()) for a dict d restricted to the keys in ks
SumValues(d, ks) ==
    IF ks = {} THEN 0
    ELSE LET k == CHOOSE k \in ks : TRUE IN d[k] + SumValues(d, ks \ {k})

Abs(v) == IF v < 0 THEN 0 - v ELSE v

-----------------------------------------------------------------------------
(* src/features/curves.py *)

quad_conversions(spend, a, b) == (a * spend) - (b * spend * spend)

\* Mutant: the marginal return is computed as a - b * spend.
quad_grad_halved(spend, a, b) == a - (b * spend)

quad_grad(spend, a, b) == a - (2 * b * spend)

\* Mutant: parameters equal to zero are accepted.
validate_curve_params_nonnegative(a, b) == a >= 0 /\ b >= 0

validate_curve_params(a, b) == a > 0 /\ b > 0

\* raises ValueError, or returns the list of conversions in the order given
conversions_at_spend_levels(spend_levels, a, b) ==
    IF ~validate_curve_params(a, b)
    THEN [called |-> TRUE, raised |-> "ValueError",
          text |-> "Invalid curve parameters", value |-> <<>>]
    ELSE [called |-> TRUE, raised |-> "", text |-> "",
          value |-> [j \in 1..Len(spend_levels) |->
                        quad_conversions(spend_levels[j], a, b)]]

-----------------------------------------------------------------------------
(* src/opt/solve.py: the problem handed to the solver *)

Channels(b) == { b[i].channel : i \in 1..Len(b) }

\* objective(x) of build_objective_function: the negated total conversions
objective(b, x) ==
    0 - SumSeq([i \in 1..Len(b) |-> quad_conversions(x[i], b[i].curve_a, b[i].curve_b)])

\* budget_constraint(x) of build_constraints
budget_constraint(budget, x) == budget - SumSeq(x)

\* bounds of build_constraints: one (min_spend, max_spend) pair per channel
build_bounds(b) == [i \in 1..Len(b) |-> <<b[i].min_spend, b[i].max_spend>>]

NoFormulation == [built |-> FALSE, budget |-> 0, bounds |-> <<>>]

build_formulation(b, budget) ==
    [built |-> TRUE, budget |-> budget, bounds |-> build_bounds(b)]

\* total_max and x0 (solve.py:91-92); x0[i] = num[i] / den
total_max(b) == SumSeq([i \in 1..Len(b) |-> b[i].max_spend])

NoX0 == [computed |-> FALSE, num |-> <<>>, den |-> 0]

\* Mutant: once another call has run the solver, the start vector is shifted
\* by the tolerance on every channel (state kept between calls).
initial_guess_carrying_state(b, budget) ==
    [computed |-> TRUE,
     num |-> [i \in 1..Len(b) |->
                 (budget * b[i].max_spend)
                 + (IF other.solver_calls > 0 THEN tolerance * total_max(b) ELSE 0)],
     den |-> total_max(b)]

\* Mutant: the budget is split equally among the channels.
initial_guess_equal_split(b, budget) ==
    [computed |-> TRUE,
     num |-> [i \in 1..Len(b) |-> budget],
     den |-> Len(b)]

\* Mutant: the shares of max_spend are not divided by their sum.
initial_guess_unnormalised(b, budget) ==
    [computed |-> TRUE,
     num |-> [i \in 1..Len(b) |-> budget * b[i].max_spend],
     den |-> 1]

initial_guess(b, budget) ==
    [computed |-> TRUE,
     num |-> [i \in 1..Len(b) |-> budget * b[i].max_spend],
     den |-> total_max(b)]

total_min_spend(b) == SumSeq([i \in 1..Len(b) |-> b[i].min_spend])

-----------------------------------------------------------------------------
(* src/opt/solve.py: OptimizationHistoryTracker *)

NoTracker ==
    [created |-> FALSE, benchmarks |-> <<>>, total_budget |-> 0,
     channel_names |-> <<>>, iterations |-> <<>>, objectives |-> <<>>,
     budget_errors |-> <<>>, spend_history |-> <<>>, iteration_count |-> 0]

\* Mutant: the three series and the counter are class-level, a new tracker
\* starts from those of the tracker of the other call.
TrackerInit_class_level_lists(b, budget) ==
    [created |-> TRUE, benchmarks |-> b, total_budget |-> budget,
     channel_names |-> [i \in 1..Len(b) |-> b[i].channel],
     iterations |-> other.tracker.iterations,
     objectives |-> other.tracker.objectives,
     budget_errors |-> other.tracker.budget_errors,
     spend_history |-> [c \in Channels(b) |-> <<>>],
     iteration_count |-> other.tracker.iteration_count]

\* __init__; the key f"spend_{ch}" is represented by the channel name ch
TrackerInit(b, budget) ==
    [created |-> TRUE, benchmarks |-> b, total_budget |-> budget,
     channel_names |-> [i \in 1..Len(b) |-> b[i].channel],
     iterations |-> <<>>, objectives |-> <<>>, budget_errors |-> <<>>,
     spend_history |-> [c \in Channels(b) |-> <<>>],
     iteration_count |-> 0]

RECURSIVE AppendSpends(_, _, _, _)
\* Mutant: the loop stops before the last channel.
AppendSpends_stop_early(sh, names, xk, i) ==
    IF i >= Len(names) \/ i > Len(xk) THEN sh
    ELSE AppendSpends([sh EXCEPT ![names[i]] = Append(@, xk[i])], names, xk, i + 1)

\* the loop of solve.py:41-42 from position i on
AppendSpends(sh, names, xk, i) ==
    IF i > Len(names) \/ i > Len(xk) THEN sh
    ELSE AppendSpends([sh EXCEPT ![names[i]] = Append(@, xk[i])], names, xk, i + 1)

\* Mutant: the iteration index is appended before the counter is advanced.
TrackerCall_zero_based(t, xk) ==
    LET n == IF Len(xk) < Len(t.benchmarks) THEN Len(xk) ELSE Len(t.benchmarks)
        total_conversions ==
            SumSeq([i \in 1..n |-> quad_conversions(xk[i], t.benchmarks[i].curve_a,
                                                    t.benchmarks[i].curve_b)])
        budget_error == t.total_budget - SumSeq(xk)
    IN [t EXCEPT !.iteration_count = @ + 1,
                 !.iterations = Append(@, t.iteration_count),
                 !.objectives = Append(@, total_conversions),
                 !.budget_errors = Append(@, budget_error),
                 !.spend_history = AppendSpends(@, t.channel_names, xk, 1)]

\* Mutant: the budget error is recorded as sum(xk) - total_budget.
TrackerCall_budget_error_reversed(t, xk) ==
    LET n == IF Len(xk) < Len(t.benchmarks) THEN Len(xk) ELSE Len(t.benchmarks)
        total_conversions ==
            SumSeq([i \in 1..n |-> quad_conversions(xk[i], t.benchmarks[i].curve_a,
                                                    t.benchmarks[i].curve_b)])
        budget_error == SumSeq(xk) - t.total_budget
    IN [t EXCEPT !.iteration_count = @ + 1,
                 !.iterations = Append(@, t.iteration_count + 1),
                 !.objectives = Append(@, total_conversions),
                 !.budget_errors = Append(@, budget_error),
                 !.spend_history = AppendSpends(@, t.channel_names, xk, 1)]

\* Mutant: the snapshot is inserted at the front of every series.
TrackerCall_prepending(t, xk) ==
    LET n == IF Len(xk) < Len(t.benchmarks) THEN Len(xk) ELSE Len(t.benchmarks)
        total_conversions ==
            SumSeq([i \in 1..n |-> quad_conversions(xk[i], t.benchmarks[i].curve_a,
                                                    t.benchmarks[i].curve_b)])
        budget_error == t.total_budget - SumSeq(xk)
    IN [t EXCEPT !.iteration_count = @ + 1,
                 !.iterations = <<t.iteration_count + 1>> \o @,
                 !.objectives = <<total_conversions>> \o @,
                 !.budget_errors = <<budget_error>> \o @,
                 !.spend_history = AppendSpends(@, t.channel_names, xk, 1)]

\* __call__(xk)
TrackerCall(t, xk) ==
    LET n == IF Len(xk) < Len(t.benchmarks) THEN Len(xk) ELSE Len(t.benchmarks)
        total_conversions ==
            SumSeq([i \in 1..n |-> quad_conversions(xk[i], t.benchmarks[i].curve_a,
                                                    t.benchmarks[i].curve_b)])
        budget_error == t.total_budget - SumSeq(xk)
    IN [t EXCEPT !.iteration_count = @ + 1,
                 !.iterations = Append(@, t.iteration_count + 1),
                 !.objectives = Append(@, total_conversions),
                 !.budget_errors = Append(@, budget_error),
                 !.spend_history = AppendSpends(@, t.channel_names, xk, 1)]

NoHistory == [iteration |-> <<>>, objective |-> <<>>, budget_error |-> <<>>, spend |-> <<>>]

\* get_history(); the spend_<channel> series are the field spend
get_history(t) ==
    [iteration |-> t.iterations, objective |-> t.objectives,
     budget_error |-> t.budget_errors, spend |-> t.spend_history]

-----------------------------------------------------------------------------
(* src/opt/solve.py: validate_solution *)

RECURSIVE check_channel_bounds(_, _, _)

\* Mutant: the loop tests only the upper bound of each channel.
check_channel_bounds_upper_only(allocation, b, i) ==
    IF i > Len(b) THEN "True"
    ELSE IF b[i].channel \notin DOMAIN allocation THEN "KeyError"
    ELSE IF allocation[b[i].channel] > b[i].max_spend + tolerance
         THEN "False"
         ELSE check_channel_bounds(allocation, b, i + 1)

\* Mutant: the loop tests only the lower bound of each channel.
check_channel_bounds_lower_only(allocation, b, i) ==
    IF i > Len(b) THEN "True"
    ELSE IF b[i].channel \notin DOMAIN allocation THEN "KeyError"
    ELSE IF allocation[b[i].channel] < b[i].min_spend - tolerance
         THEN "False"
         ELSE check_channel_bounds(allocation, b, i + 1)

\* the loop of solve.py:174-177 from channel i on; a missing key raises
check_channel_bounds(allocation, b, i) ==
    IF i > Len(b) THEN "True"
    ELSE IF b[i].channel \notin DOMAIN allocation THEN "KeyError"
    ELSE IF \/ allocation[b[i].channel] < b[i].min_spend - tolerance
            \/ allocation[b[i].channel] > b[i].max_spend + tolerance
         THEN "False"
         ELSE check_channel_bounds(allocation, b, i + 1)

\* Mutant: the budget test is left out.
validate_solution_bounds_only(allocation, b, budget) ==
    check_channel_bounds(allocation, b, 1)

\* Mutant: the budget test rejects a residual equal to the tolerance.
validate_solution_strict(allocation, b, budget) ==
    LET total_allocated == SumValues(allocation, DOMAIN allocation)
    IN IF Abs(total_allocated - budget) >= tolerance THEN "False"
       ELSE check_channel_bounds(allocation, b, 1)

\* "True", "False", or "KeyError" when the function raises
validate_solution(allocation, b, budget) ==
    LET total_allocated == SumValues(allocation, DOMAIN allocation)
    IN IF Abs(total_allocated - budget) > tolerance THEN "False"
       ELSE check_channel_bounds(allocation, b, 1)

\* the dict comprehension of solve.py:114-116: a later record of the same
\* channel name overwrites an earlier one
package_allocation(b, x) ==
    [c \in Channels(b) |->
        x[CHOOSE i \in 1..Len(b) :
              b[i].channel = c /\ \A j \in (i + 1)..Len(b) : b[j].channel # c]]

-----------------------------------------------------------------------------
(* scipy.optimize.minimize as solve_qp observes it *)

SuccessMessage == "Optimization terminated successfully"

FailureMessages == { "Iteration limit reached",
                     "Positive directional derivative for linesearch" }

NoResult == [present |-> FALSE, success |-> FALSE, x |-> <<>>, message |-> ""]

\* Iterates handed to the callback: every channel at its lower bound, or
\* every channel at its upper bound.
Iterates(b) == { [i \in 1..Len(b) |-> b[i].min_spend],
                 [i \in 1..Len(b) |-> b[i].max_spend] }

\* What minimize may return for n variables.  On success x is any vector of
\* the grid.  Without success solve_qp never reads x (solve.py:110-111), so
\* one vector stands for all of them.
SolverResults(b) ==
    { [present |-> TRUE, success |-> TRUE, x |-> x, message |-> SuccessMessage] :
          x \in Vectors(Len(b)) }
    \cup
    { [present |-> TRUE, success |-> FALSE,
       x |-> [i \in 1..Len(b) |-> b[i].min_spend], message |-> m] :
          m \in FailureMessages }

\* SLSQP rejects bounds with lb > ub by raising ValueError
BoundsInconsistent(bounds) == \E i \in 1..Len(bounds) : bounds[i][1] > bounds[i][2]

\* minimize draws no random numbers and keeps no state between calls: one
\* and the same function of its arguments answers every call.  FreeSolver
\* leaves that function open at every step; a member of Strategies fixes it:
\* the number of major iterations, the iterate of each of them, and the
\* result ("start" is the start vector x0 rounded down, "limit" is a
\* result without success).
FreeSolver == [fixed |-> FALSE, iters |-> 0, iterate |-> "low", answer |-> "low"]

Strategies ==
    [fixed : {TRUE}, iters : 0..MaxIter, iterate : {"low", "high"},
     answer : {"low", "high", "start", "limit"}]

OracleIterate(o, b) ==
    IF o.iterate = "low" THEN [i \in 1..Len(b) |-> b[i].min_spend]
                         ELSE [i \in 1..Len(b) |-> b[i].max_spend]

OracleResult(o, b, start) ==
    IF o.answer = "limit"
    THEN [present |-> TRUE, success |-> FALSE,
          x |-> [i \in 1..Len(b) |-> b[i].min_spend],
          message |-> "Iteration limit reached"]
    ELSE [present |-> TRUE, success |-> TRUE,
          x |-> IF o.answer = "low" THEN [i \in 1..Len(b) |-> b[i].min_spend]
                ELSE IF o.answer = "high" THEN [i \in 1..Len(b) |-> b[i].max_spend]
                ELSE [i \in 1..Len(b) |-> start.num[i] \div start.den],
          message |-> SuccessMessage]

-----------------------------------------------------------------------------
(* solve_qp *)

NoError == [type |-> "", text |-> "", message |-> ""]

NothingReturned == [allocation |-> <<>>, has_history |-> FALSE, history |-> NoHistory]

Raise(type, text, message) ==
    /\ status' = "raised"
    /\ error' = [type |-> type, text |-> text, message |-> message]
    /\ returned' = NothingReturned
    /\ pc' = "done"

\* Mutant: the feasibility test of solve.py:79-84 is left out.
EagerChecks_no_feasibility ==
    /\ pc = "start"
    /\ IF benchmarks = <<>>
       THEN Raise("ValueError", "Need at least one channel to optimize", "")
       ELSE IF total_budget <= 0
       THEN Raise("ValueError", "Budget must be > 0", "")
       ELSE /\ pc' = "build"
            /\ UNCHANGED <<status, error, returned>>
    /\ UNCHANGED <<benchmarks, total_budget, track_history, formulation, x0,
                   tracker, solver_calls, majiter, result, candidate, verdict, delivered,
                   oracle, other, obtained, call, outcome>>

\* Mutant: the feasibility test comes before the budget test.
EagerChecks_budget_last ==
    /\ pc = "start"
    /\ IF benchmarks = <<>>
       THEN Raise("ValueError", "Need at least one channel to optimize", "")
       ELSE IF total_min_spend(benchmarks) > total_budget
       THEN Raise("ValueError", "Budget too small for min spends", "")
       ELSE IF total_budget <= 0
       THEN Raise("ValueError", "Budget must be > 0", "")
       ELSE /\ pc' = "build"
            /\ UNCHANGED <<status, error, returned>>
    /\ UNCHANGED <<benchmarks, total_budget, track_history, formulation, x0,
                   tracker, solver_calls, majiter, result, candidate, verdict, delivered,
                   oracle, other, obtained, call, outcome>>

\* Mutant: a budget equal to the sum of min_spend is rejected as well.
EagerChecks_nonstrict_feasibility ==
    /\ pc = "start"
    /\ IF benchmarks = <<>>
       THEN Raise("ValueError", "Need at least one channel to optimize", "")
       ELSE IF total_budget <= 0
       THEN Raise("ValueError", "Budget must be > 0", "")
       ELSE IF total_min_spend(benchmarks) >= total_budget
       THEN Raise("ValueError", "Budget too small for min spends", "")
       ELSE /\ pc' = "build"
            /\ UNCHANGED <<status, error, returned>>
    /\ UNCHANGED <<benchmarks, total_budget, track_history, formulation, x0,
                   tracker, solver_calls, majiter, result, candidate, verdict, delivered,
                   oracle, other, obtained, call, outcome>>

\* solve.py:73-84, in the order of the code
EagerChecks ==
    /\ pc = "start"
    /\ IF benchmarks = <<>>
       THEN Raise("ValueError", "Need at least one channel to optimize", "")
       ELSE IF total_budget <= 0
       THEN Raise("ValueError", "Budget must be > 0", "")
       ELSE IF total_min_spend(benchmarks) > total_budget
       THEN Raise("ValueError", "Budget too small for min spends", "")
       ELSE /\ pc' = "build"
            /\ UNCHANGED <<status, error, returned>>
    /\ UNCHANGED <<benchmarks, total_budget, track_history, formulation, x0,
                   tracker, solver_calls, majiter, result, candidate, verdict, delivered,
                   oracle, other, obtained, call, outcome>>

\* Mutant: building the problem lowers a min_spend that exceeds its
\* max_spend, in the caller's records.
BuildProblem_clamping ==
    /\ pc = "build"
    /\ formulation' = build_formulation(benchmarks, total_budget)
    /\ benchmarks' =
          [i \in 1..Len(benchmarks) |->
              [benchmarks[i] EXCEPT !.min_spend =
                  IF @ > benchmarks[i].max_spend THEN benchmarks[i].max_spend ELSE @]]
    /\ IF total_max(benchmarks) = 0
       THEN /\ Raise("ZeroDivisionError", "division by zero", "")
            /\ UNCHANGED <<x0, tracker>>
       ELSE /\ x0' = initial_guess(benchmarks, total_budget)
            /\ tracker' = IF track_history
                             THEN TrackerInit(benchmarks, total_budget)
                             ELSE NoTracker
            /\ pc' = "minimize"
            /\ UNCHANGED <<status, error, returned>>
    /\ UNCHANGED <<total_budget, track_history, solver_calls,
                   majiter, result, candidate, verdict, delivered,
                   oracle, other, obtained, call, outcome>>

\* solve.py:86-97: objective, constraints and bounds, then x0 (a division by
\* total_max), then the tracker
BuildProblem ==
    /\ pc = "build"
    /\ formulation' = build_formulation(benchmarks, total_budget)
    /\ IF total_max(benchmarks) = 0
       THEN /\ Raise("ZeroDivisionError", "division by zero", "")
            /\ UNCHANGED <<x0, tracker>>
       ELSE /\ x0' = initial_guess(benchmarks, total_budget)
            /\ tracker' = IF track_history
                             THEN TrackerInit(benchmarks, total_budget)
                             ELSE NoTracker
            /\ pc' = "minimize"
            /\ UNCHANGED <<status, error, returned>>
    /\ UNCHANGED <<benchmarks, total_budget, track_history, solver_calls,
                   majiter, result, candidate, verdict, delivered,
                   oracle, other, obtained, call, outcome>>

\* solve.py:100-108: minimize is entered; it raises on inconsistent bounds
CallMinimize ==
    /\ pc = "minimize"
    /\ solver_calls' = solver_calls + 1
    /\ IF BoundsInconsistent(formulation.bounds)
       THEN Raise("ValueError", "SLSQP Error: lb > ub in bounds", "")
       ELSE /\ pc' = "iterating"
            /\ UNCHANGED <<status, error, returned>>
    /\ UNCHANGED <<benchmarks, total_budget, track_history, formulation, x0,
                   tracker, majiter, result, candidate, verdict, delivered,
                   oracle, other, obtained, call, outcome>>

\* one major iteration of the solver: callback=tracker is invoked with the
\* iterate when a tracker was passed
MajorIteration ==
    /\ pc = "iterating"
    /\ majiter < MaxIter
    /\ oracle.fixed => majiter < oracle.iters
    /\ \E xk \in Iterates(benchmarks) :
          /\ oracle.fixed => xk = OracleIterate(oracle, benchmarks)
          /\ tracker' = IF tracker.created THEN TrackerCall(tracker, xk) ELSE tracker
          /\ delivered' = Append(delivered, xk)
    /\ majiter' = majiter + 1
    /\ UNCHANGED <<benchmarks, total_budget, track_history, pc, formulation, x0,
                   solver_calls, result, status, error, returned, candidate,
                   verdict, oracle, other, obtained, call, outcome>>

\* Mutant: the pair (allocation, history) is returned on every call.
Return_always_pair(allocation) ==
    /\ status' = "returned"
    /\ error' = NoError
    /\ returned' = [allocation |-> allocation, has_history |-> TRUE,
                    history |-> get_history(tracker)]
    /\ pc' = "done"

\* Mutant: channels whose spend is zero are left out of the returned mapping.
Return_spent_only(allocation) ==
    /\ status' = "returned"
    /\ error' = NoError
    /\ returned' =
          LET spent == [c \in { d \in DOMAIN allocation : allocation[d] # 0 }
                            |-> allocation[c]]
          IN IF track_history
             THEN [allocation |-> spent, has_history |-> TRUE,
                   history |-> get_history(tracker)]
             ELSE [allocation |-> spent, has_history |-> FALSE,
                   history |-> NoHistory]
    /\ pc' = "done"

\* solve.py:122-125
Return(allocation) ==
    /\ status' = "returned"
    /\ error' = NoError
    /\ returned' =
          IF track_history
          THEN [allocation |-> allocation, has_history |-> TRUE,
                history |-> get_history(tracker)]
          ELSE [allocation |-> allocation, has_history |-> FALSE,
                history |-> NoHistory]
    /\ pc' = "done"

\* Mutant: on a tracked call the last recorded iterate is packaged in place
\* of the solver's result.
PackageAndValidate_last_snapshot(res) ==
    LET x == IF tracker.created /\ delivered # <<>>
             THEN delivered[Len(delivered)] ELSE res.x
        allocation == package_allocation(benchmarks, x)
        valid == validate_solution(allocation, benchmarks, total_budget)
    IN IF valid = "KeyError"
       THEN Raise("KeyError", "channel", "")
       ELSE IF valid = "False"
       THEN Raise("RuntimeError", "Solution doesn't meet constraints", "")
       ELSE Return(allocation)

\* solve.py:113-125
PackageAndValidate(res) ==
    LET allocation == package_allocation(benchmarks, res.x)
        valid == validate_solution(allocation, benchmarks, total_budget)
    IN IF valid = "KeyError"
       THEN Raise("KeyError", "channel", "")
       ELSE IF valid = "False"
       THEN Raise("RuntimeError", "Solution doesn't meet constraints", "")
       ELSE Return(allocation)

\* Mutant: the packaged allocation is returned without validation.
Finish_unvalidated(res) ==
    IF ~res.success
    THEN Raise("RuntimeError", "Optimization failed", res.message)
    ELSE Return(package_allocation(benchmarks, res.x))

\* Mutant: a result without success sends the call back to minimize.
Finish_retrying(res) ==
    IF ~res.success
    THEN /\ pc' = "minimize"
         /\ UNCHANGED <<status, error, returned>>
    ELSE PackageAndValidate(res)

\* solve.py:110-125 for the result res of minimize
\* Mutant: a result without success is handed back to the solver, which goes
\* on from where it stopped.
Finish_resuming(res) ==
    IF ~res.success
    THEN /\ pc' = "iterating"
         /\ UNCHANGED <<status, error, returned>>
    ELSE PackageAndValidate(res)

Finish(res) ==
    IF ~res.success
    THEN Raise("RuntimeError", "Optimization failed", res.message)
    ELSE PackageAndValidate(res)

\* minimize returns and solve_qp runs to its end
MinimizeReturns ==
    /\ pc = "iterating"
    /\ oracle.fixed => majiter = oracle.iters
    /\ \E res \in SolverResults(benchmarks) :
          /\ oracle.fixed => res = OracleResult(oracle, benchmarks, x0)
          /\ result' = res
          /\ Finish(res)
    /\ UNCHANGED <<benchmarks, total_budget, track_history, formulation, x0,
                   tracker, solver_calls, majiter, candidate, verdict, delivered,
                   oracle, other, obtained, call, outcome>>

-----------------------------------------------------------------------------
(* Specification: one solve_qp call on any input of the domains *)

NoCandidate == <<>>

\* no helper function is called directly
NoHelperCall == [fn |-> ""]

NoOutcome == [done |-> FALSE]

\* no second call
NoCall ==
    [benchmarks |-> <<>>, total_budget |-> 0, track_history |-> FALSE,
     pc |-> "absent", formulation |-> NoFormulation, x0 |-> NoX0,
     tracker |-> NoTracker, solver_calls |-> 0, majiter |-> 0,
     result |-> NoResult, status |-> "running", error |-> NoError,
     returned |-> NothingReturned, delivered |-> <<>>]

\* get_history() has not been called by a caller
NotObtained == [taken |-> FALSE, live |-> FALSE, at_return |-> NoHistory,
                seen |-> NoHistory]

Init ==
    /\ benchmarks \in BenchmarkLists
    /\ total_budget \in Budgets
    /\ track_history \in BOOLEAN
    /\ pc = "start"
    /\ formulation = NoFormulation
    /\ x0 = NoX0
    /\ tracker = NoTracker
    /\ solver_calls = 0
    /\ majiter = 0
    /\ result = NoResult
    /\ status = "running"
    /\ error = NoError
    /\ returned = NothingReturned
    /\ candidate = NoCandidate
    /\ verdict = ""
    /\ delivered = <<>>
    /\ oracle = FreeSolver
    /\ other = NoCall
    /\ obtained = NotObtained
    /\ call = NoHelperCall
    /\ outcome = NoOutcome

Next ==
    \/ EagerChecks
    \/ BuildProblem
    \/ CallMinimize
    \/ MajorIteration
    \/ MinimizeReturns

Spec == Init /\ [][Next]_vars

\* The interpreter runs the call: a step of solve_qp that can be taken is
\* eventually taken.  The solver's major iterations are limited (MaxIter
\* stands for the iteration limit of SLSQP, which solve.py:107 leaves at its
\* default), so minimize itself returns.
SpecLive == Spec /\ WF_vars(Next)

-----------------------------------------------------------------------------
(* Specification: one direct call of validate_solution on any allocation  *)
(* mapping, as the tests and consumers of the module make it              *)

ChannelNames == { p.channel : p \in ChannelPool }

Allocations == UNION { [ks -> SpendGrid] : ks \in SUBSET ChannelNames }

InitValidate ==
    /\ benchmarks \in BenchmarkLists
    /\ total_budget \in Budgets
    /\ candidate \in Allocations
    /\ verdict = ""
    /\ track_history = FALSE
    /\ pc = "idle"
    /\ formulation = NoFormulation
    /\ x0 = NoX0
    /\ tracker = NoTracker
    /\ solver_calls = 0
    /\ majiter = 0
    /\ result = NoResult
    /\ status = "running"
    /\ error = NoError
    /\ returned = NothingReturned
    /\ delivered = <<>>
    /\ oracle = FreeSolver
    /\ other = NoCall
    /\ obtained = NotObtained
    /\ call = NoHelperCall
    /\ outcome = NoOutcome

\* Mutant: the call drops the entries of channels it was not given.
ValidateCall_pruning ==
    /\ pc = "idle"
    /\ verdict = ""
    /\ verdict' = validate_solution(candidate, benchmarks, total_budget)
    /\ candidate' = [c \in DOMAIN candidate \cap Channels(benchmarks) |-> candidate[c]]
    /\ UNCHANGED <<benchmarks, total_budget, track_history>>
    /\ UNCHANGED callvars
    /\ UNCHANGED <<oracle, other, obtained, call, outcome>>

\* validate_solution(candidate, benchmarks, total_budget) runs to its end
ValidateCall ==
    /\ pc = "idle"
    /\ verdict = ""
    /\ verdict' = validate_solution(candidate, benchmarks, total_budget)
    /\ UNCHANGED <<benchmarks, total_budget, track_history, candidate>>
    /\ UNCHANGED callvars
    /\ UNCHANGED <<oracle, other, obtained, call, outcome>>

NextValidate == ValidateCall

SpecValidate == InitValidate /\ [][NextValidate]_vars

-----------------------------------------------------------------------------
(* Specification: two solve_qp calls, run one after the other or          *)
(* interleaved step by step in any order.  Each call has its arguments    *)
(* and locals; solve.py has no module-level or class-level variable, so   *)
(* nothing but the behaviour of minimize is common to the two calls.      *)
(* The variables of the single call are those of the call that is         *)
(* running, other holds the call that is waiting.                         *)

\* Channel collections of the two calls: one or two records of the pool,
\* in the order of their curve_a (a record may come twice).
CallLists ==
    { b \in [1..1 -> ChannelPool] \cup [1..2 -> ChannelPool] :
          \A i \in 1..(Len(b) - 1) : b[i].curve_a >= b[i + 1].curve_a }

\* One budget below the min_spend of some collections, one that is feasible
\* for all of them.
CallBudgets == { PoolLow + 1, PoolHigh }

ThisCall ==
    [benchmarks |-> benchmarks, total_budget |-> total_budget,
     track_history |-> track_history, pc |-> pc, formulation |-> formulation,
     x0 |-> x0, tracker |-> tracker, solver_calls |-> solver_calls,
     majiter |-> majiter, result |-> result, status |-> status,
     error |-> error, returned |-> returned, delivered |-> delivered]

InitCalls ==
    /\ benchmarks \in CallLists
    /\ total_budget \in CallBudgets
    /\ track_history \in BOOLEAN
    /\ pc = "start"
    /\ formulation = NoFormulation
    /\ x0 = NoX0
    /\ tracker = NoTracker
    /\ solver_calls = 0
    /\ majiter = 0
    /\ result = NoResult
    /\ status = "running"
    /\ error = NoError
    /\ returned = NothingReturned
    /\ candidate = NoCandidate
    /\ verdict = ""
    /\ delivered = <<>>
    /\ oracle \in Strategies
    /\ \E b \in CallLists, budget \in CallBudgets, track \in BOOLEAN :
          other = [NoCall EXCEPT !.benchmarks = b, !.total_budget = budget,
                                 !.track_history = track, !.pc = "start"]
    /\ obtained = NotObtained
    /\ call = NoHelperCall
    /\ outcome = NoOutcome

\* the running call is suspended and the waiting call goes on
Switch ==
    /\ other.pc \notin {"absent", "done"}
    /\ other' = ThisCall
    /\ benchmarks' = other.benchmarks
    /\ total_budget' = other.total_budget
    /\ track_history' = other.track_history
    /\ pc' = other.pc
    /\ formulation' = other.formulation
    /\ x0' = other.x0
    /\ tracker' = other.tracker
    /\ solver_calls' = other.solver_calls
    /\ majiter' = other.majiter
    /\ result' = other.result
    /\ status' = other.status
    /\ error' = other.error
    /\ returned' = other.returned
    /\ delivered' = other.delivered
    /\ UNCHANGED <<candidate, verdict, oracle, obtained, call, outcome>>

NextCalls ==
    \/ EagerChecks
    \/ BuildProblem
    \/ CallMinimize
    \/ MajorIteration
    \/ MinimizeReturns
    \/ Switch

SpecCalls == InitCalls /\ [][NextCalls]_vars

-----------------------------------------------------------------------------
(* Specification: OptimizationHistoryTracker used as an object of its own: *)
(* constructed, invoked with iterates, asked for its history, and replaced *)
(* by a fresh tracker as a later solve_qp call constructs one.             *)
(*                                                                         *)
(* get_history puts the tracker's own list objects into the mapping it     *)
(* returns (solve.py:46-51 copy nothing).  obtained.at_return is what the  *)
(* mapping held when it was returned, obtained.seen what its holder reads  *)
(* in it now, obtained.live whether its lists are those of the tracker     *)
(* that is being invoked.                                                  *)

\* Iterates a tracker is invoked with: the two of Iterates, and the vector
\* that alternates between upper and lower bound.
TrackerIterates(b) ==
    Iterates(b) \cup
    { [i \in 1..Len(b) |-> IF i % 2 = 1 THEN b[i].max_spend ELSE b[i].min_spend] }

InitTracker ==
    /\ benchmarks \in BenchmarkLists
    /\ total_budget \in Budgets
    /\ track_history = TRUE
    /\ pc = "tracker"
    /\ formulation = NoFormulation
    /\ x0 = NoX0
    /\ tracker = TrackerInit(benchmarks, total_budget)
    /\ solver_calls = 0
    /\ majiter = 0
    /\ result = NoResult
    /\ status = "running"
    /\ error = NoError
    /\ returned = NothingReturned
    /\ candidate = NoCandidate
    /\ verdict = ""
    /\ delivered = <<>>
    /\ oracle = FreeSolver
    /\ other = NoCall
    /\ obtained = NotObtained
    /\ call = NoHelperCall
    /\ outcome = NoOutcome

\* tracker(xk)
TrackerInvoke ==
    /\ pc = "tracker"
    /\ Len(delivered) < MaxIter
    /\ \E xk \in TrackerIterates(benchmarks) :
          /\ tracker' = TrackerCall(tracker, xk)
          /\ delivered' = Append(delivered, xk)
    /\ obtained' = IF obtained.taken /\ obtained.live
                       THEN [obtained EXCEPT !.seen = get_history(tracker')]
                       ELSE obtained
    /\ UNCHANGED <<benchmarks, total_budget, track_history, pc, formulation, x0,
                   solver_calls, majiter, result, status, error, returned,
                   candidate, verdict, oracle, other, call,
                   outcome>>

\* h = tracker.get_history()
GetHistory ==
    /\ pc = "tracker"
    /\ ~obtained.taken
    /\ obtained' = [taken |-> TRUE, live |-> TRUE,
                    at_return |-> get_history(tracker),
                    seen |-> get_history(tracker)]
    /\ UNCHANGED <<benchmarks, total_budget, track_history, pc, formulation, x0,
                   tracker, solver_calls, majiter, result, status, error,
                   returned, candidate, verdict, delivered, oracle, other, call,
                   outcome>>

\* a later call constructs its own tracker (solve.py:95-97); __init__ makes
\* new lists, those of the mapping obtained before belong to the old one
NewTracker ==
    /\ pc = "tracker"
    /\ obtained.taken
    /\ obtained.live
    /\ tracker' = TrackerInit(benchmarks, total_budget)
    /\ delivered' = <<>>
    /\ obtained' = [obtained EXCEPT !.live = FALSE]
    /\ UNCHANGED <<benchmarks, total_budget, track_history, pc, formulation, x0,
                   solver_calls, majiter, result, status, error, returned,
                   candidate, verdict, oracle, other, call,
                   outcome>>

NextTracker ==
    \/ TrackerInvoke
    \/ GetHistory
    \/ NewTracker

SpecTracker == InitTracker /\ [][NextTracker]_vars

-----------------------------------------------------------------------------
(* Properties of solve_qp (specification Spec) *)

AllocatedTotal(allocation) == SumValues(allocation, DOMAIN allocation)

MinSpendTotal == SumSeq([i \in 1..Len(benchmarks) |-> benchmarks[i].min_spend])

WithinBudget(allocation) == Abs(AllocatedTotal(allocation) - total_budget) <= tolerance

WithinBounds(allocation) ==
    \A i \in 1..Len(benchmarks) :
        /\ benchmarks[i].min_spend - tolerance <= allocation[benchmarks[i].channel]
        /\ allocation[benchmarks[i].channel] <= benchmarks[i].max_spend + tolerance

NothingBuilt ==
    /\ ~formulation.built
    /\ ~x0.computed
    /\ ~tracker.created
    /\ tracker.iterations = <<>>
    /\ solver_calls = 0
    /\ majiter = 0
    /\ ~result.present

C2_BoundsRespected ==
    status = "returned" =>
        \A i \in 1..Len(benchmarks) :
            /\ benchmarks[i].min_spend - tolerance
                   <= returned.allocation[benchmarks[i].channel]
            /\ returned.allocation[benchmarks[i].channel]
                   <= benchmarks[i].max_spend + tolerance

\* An allocation is returned with one channel exactly 1e-6 below its
\* min_spend and another exactly 1e-6 above its max_spend.
C2_Witness ==
    /\ status = "returned"
    /\ \E i \in 1..Len(benchmarks) :
          returned.allocation[benchmarks[i].channel]
              = benchmarks[i].min_spend - tolerance
    /\ \E i \in 1..Len(benchmarks) :
          returned.allocation[benchmarks[i].channel]
              = benchmarks[i].max_spend + tolerance

\* C3: for a non-empty channel collection and total_budget > 0 with the sum
\* of all min_spend strictly greater than total_budget, solve_qp fails with
\* "Budget too small for min spends" and neither objective, constraints,
\* initial iterate nor tracker are ever built, the solver is never invoked
\* and no snapshot is ever recorded.
C3_InfeasibleFailsBeforeSolving ==
    (benchmarks # <<>> /\ total_budget > 0 /\ MinSpendTotal > total_budget) =>
        /\ NothingBuilt
        /\ pc \in {"start", "done"}
        /\ pc = "done" =>
              /\ status = "raised"
              /\ error = [type |-> "ValueError",
                          text |-> "Budget too small for min spends",
                          message |-> ""]
              /\ returned = NothingReturned

\* An infeasible call has ended.
C3_Witness ==
    /\ benchmarks # <<>>
    /\ total_budget > 0
    /\ MinSpendTotal > total_budget
    /\ pc = "done"
    /\ track_history

\* C4: the eager checks fail in a fixed order before any optimization work:
\* an empty collection fails with "Need at least one channel" whatever the
\* budget; a non-empty collection with total_budget <= 0 fails with "Budget
\* must be > 0" whatever the min_spend values; the infeasibility error is
\* raised only when both of these checks pass.
C4_EagerChecksInOrder ==
    pc = "done" =>
        /\ benchmarks = <<>> =>
              /\ status = "raised"
              /\ error.type = "ValueError"
              /\ error.text = "Need at least one channel to optimize"
              /\ NothingBuilt
        /\ (benchmarks # <<>> /\ total_budget <= 0) =>
              /\ status = "raised"
              /\ error.type = "ValueError"
              /\ error.text = "Budget must be > 0"
              /\ NothingBuilt
        /\ error.text = "Budget too small for min spends" =>
              (benchmarks # <<>> /\ total_budget > 0)

\* A call has ended whose budget is not positive and also smaller than the
\* sum of the min_spend of its channels.
C4_Witness ==
    /\ pc = "done"
    /\ benchmarks # <<>>
    /\ total_budget <= 0
    /\ MinSpendTotal > total_budget

\* C6: solve_qp returns an allocation only if validate_solution accepts it
\* for the same channels and budget; when the solver reports success and
\* the validator rejects the candidate, the call fails with "Solution
\* doesn't meet constraints" and returns neither allocation nor history.
C6_ReturnedOnlyIfValid ==
    /\ status = "returned" =>
          /\ validate_solution(returned.allocation, benchmarks, total_budget) = "True"
          /\ WithinBudget(returned.allocation)
          /\ WithinBounds(returned.allocation)
    /\ ( /\ result.present
         /\ result.success
         /\ validate_solution(package_allocation(benchmarks, result.x),
                              benchmarks, total_budget) # "True" ) =>
          /\ status = "raised"
          /\ error = [type |-> "RuntimeError",
                      text |-> "Solution doesn't meet constraints",
                      message |-> ""]
          /\ returned = NothingReturned

\* The solver reported success on a tracked call and the call failed with
\* the solution-invalid error.
C6_Witness ==
    /\ result.present
    /\ result.success
    /\ track_history
    /\ tracker.iterations # <<>>
    /\ status = "raised"
    /\ error.text = "Solution doesn't meet constraints"

\* C10: when minimize reports non-success, solve_qp fails with "Optimization
\* failed" carrying the solver's message, returns neither allocation nor
\* history, and minimize is invoked at most once per call.
C10_FailureIsFatalAndNotRetried ==
    /\ solver_calls <= 1
    /\ (result.present /\ ~result.success) =>
          /\ pc = "done"
          /\ status = "raised"
          /\ error = [type |-> "RuntimeError", text |-> "Optimization failed",
                      message |-> result.message]
          /\ returned = NothingReturned
          /\ solver_calls = 1

\* A tracked call whose solver recorded snapshots and then reported
\* non-success has ended.
C10_Witness ==
    /\ result.present
    /\ ~result.success
    /\ result.message = "Iteration limit reached"
    /\ tracker.iterations # <<>>
    /\ status = "raised"

-----------------------------------------------------------------------------
(* Properties of validate_solution (specification SpecValidate) *)

AllChannelsPresent == Channels(benchmarks) \subseteq DOMAIN candidate

\* the first channel, in list order, that has no entry in the candidate
\* comes before every channel whose entry is out of bounds
MissingChannelReached ==
    \E i \in 1..Len(benchmarks) :
        /\ benchmarks[i].channel \notin DOMAIN candidate
        /\ \A j \in 1..(i - 1) :
              /\ benchmarks[j].channel \in DOMAIN candidate
              /\ benchmarks[j].min_spend - tolerance <= candidate[benchmarks[j].channel]
              /\ candidate[benchmarks[j].channel] <= benchmarks[j].max_spend + tolerance

\* C5: for an allocation with an entry for every channel, validate_solution
\* returns True if and only if |sum of all allocation values - total_budget|
\* <= 1e-6 and every channel's spend lies in [min_spend - 1e-6,
\* max_spend + 1e-6]; in every other case it returns False.
C5_ValidatorIff ==
    (verdict # "" /\ AllChannelsPresent) =>
        /\ verdict \in {"True", "False"}
        /\ verdict = "True" <=> (WithinBudget(candidate) /\ WithinBounds(candidate))

\* The validator accepted an allocation whose sum is off by exactly 1e-6,
\* with one spend exactly 1e-6 below min_spend and one exactly 1e-6 above
\* max_spend.
C5_Witness ==
    /\ verdict = "True"
    /\ AllChannelsPresent
    /\ Abs(AllocatedTotal(candidate) - total_budget) = tolerance
    /\ \E i \in 1..Len(benchmarks) :
          candidate[benchmarks[i].channel] = benchmarks[i].min_spend - tolerance
    /\ \E i \in 1..Len(benchmarks) :
          candidate[benchmarks[i].channel] = benchmarks[i].max_spend + tolerance

\* C7 as stated: for any allocation mapping, channel collection and budget
\* validate_solution ends with a boolean result (it never raises).
C7_NeverRaises ==
    verdict # "" => verdict \in {"True", "False"}

\* C7 amended: validate_solution leaves the allocation, the channel records
\* and the budget unchanged; it ends with a boolean result whenever every
\* channel has an entry in the allocation or the budget test fails, and it
\* raises KeyError exactly when the budget test passes and the loop reaches
\* a channel without an entry before any channel that is out of bounds.
C7_RaisesOnlyOnMissingChannel ==
    [][ /\ candidate' = candidate
        /\ benchmarks' = benchmarks
        /\ total_budget' = total_budget
        /\ verdict' # "" =>
              /\ verdict' \in {"True", "False", "KeyError"}
              /\ verdict' = "KeyError" <=>
                    (WithinBudget(candidate) /\ MissingChannelReached)
              /\ AllChannelsPresent => verdict' \in {"True", "False"} ]_vars

\* The validator returned a boolean for an allocation that has an entry
\* for every channel and further entries besides.
C7_Witness ==
    /\ verdict \in {"True", "False"}
    /\ benchmarks # <<>>
    /\ AllChannelsPresent
    /\ DOMAIN candidate # Channels(benchmarks)

-----------------------------------------------------------------------------
(* Properties of the return value and of the tracker (specification Spec) *)

\* C11: on success solve_qp returns the allocation alone when track_history
\* is false and the pair (allocation, convergence history) when it is true;
\* a tracker is created and invoked only when track_history is true.
C11_HistoryOnlyWhenTracked ==
    /\ tracker.created => track_history
    /\ ~track_history => tracker = NoTracker
    /\ (track_history /\ pc \in {"minimize", "iterating"}) => tracker.created
    /\ status = "returned" =>
          /\ returned.allocation = package_allocation(benchmarks, result.x)
          /\ returned.has_history = track_history
          /\ track_history =>
                /\ returned.history = get_history(tracker)
                /\ Len(returned.history.iteration) = majiter
          /\ ~track_history => returned.history = NoHistory

\* A tracked call has returned the pair, with snapshots in the history.
C11_Witness ==
    /\ status = "returned"
    /\ track_history
    /\ returned.has_history
    /\ returned.history.iteration # <<>>

\* the channel identifiers of the call are pairwise distinct
DistinctChannels ==
    \A i, j \in 1..Len(benchmarks) :
        benchmarks[i].channel = benchmarks[j].channel => i = j

\* C12 as stated: every allocation returned by solve_qp has exactly one
\* entry per supplied channel record: the number of entries equals the
\* number of channels, every supplied channel identifier is a key and no
\* other key is present.
C12_OneEntryPerRecord ==
    status = "returned" =>
        /\ Cardinality(DOMAIN returned.allocation) = Len(benchmarks)
        /\ DOMAIN returned.allocation = Channels(benchmarks)

\* C12 amended: the keys of every returned allocation are exactly the
\* identifiers of the supplied channel records; the number of entries
\* equals the number of channels when the identifiers are pairwise
\* distinct, and records that repeat an identifier share one entry, which
\* holds the solver's spend for the last of them.
C12_OneEntryPerIdentifier ==
    status = "returned" =>
        /\ DOMAIN returned.allocation = Channels(benchmarks)
        /\ Cardinality(DOMAIN returned.allocation) <= Len(benchmarks)
        /\ DistinctChannels =>
              Cardinality(DOMAIN returned.allocation) = Len(benchmarks)
        /\ \A i \in 1..Len(benchmarks) :
              (\A j \in (i + 1)..Len(benchmarks) :
                    benchmarks[j].channel # benchmarks[i].channel)
                 => returned.allocation[benchmarks[i].channel] = result.x[i]

\* An allocation is returned for two channels with distinct identifiers,
\* one of them with a spend of zero.
C12_Witness ==
    /\ status = "returned"
    /\ Len(benchmarks) >= 2
    /\ DistinctChannels
    /\ \E c \in DOMAIN returned.allocation : returned.allocation[c] = 0

\* C15: after any number k of tracker invocations the recorded iteration
\* series is exactly 1, 2, ..., k: the first snapshot has index 1 and each
\* later snapshot's index is one more than its predecessor's.
C15_IterationSeriesCounts ==
    tracker.created =>
        /\ tracker.iteration_count = Len(delivered)
        /\ Len(tracker.iterations) = Len(delivered)
        /\ tracker.iterations # <<>> => tracker.iterations[1] = 1
        /\ \A j \in 2..Len(tracker.iterations) :
              tracker.iterations[j] = tracker.iterations[j - 1] + 1
        /\ \A j \in 1..Len(tracker.iterations) : tracker.iterations[j] = j

\* A tracker has been invoked at least twice.
C15_Witness ==
    /\ tracker.created
    /\ Len(delivered) >= 2
    /\ Len(tracker.iterations) >= 2

\* C16: for every channel collection with pairwise distinct identifiers and
\* after any number k of tracker invocations, the history returned by
\* get_history has the keys iteration, objective, budget_error and one
\* spend_<channel> key per channel, and every one of these series has the
\* same length k.
C16_SeriesAligned ==
    (tracker.created /\ DistinctChannels) =>
        LET h == get_history(tracker)
            k == Len(delivered)
        IN /\ DOMAIN h = {"iteration", "objective", "budget_error", "spend"}
           /\ DOMAIN h.spend = Channels(benchmarks)
           /\ Cardinality(DOMAIN h.spend) = Len(benchmarks)
           /\ Len(h.iteration) = k
           /\ Len(h.objective) = k
           /\ Len(h.budget_error) = k
           /\ \A c \in DOMAIN h.spend : Len(h.spend[c]) = k

\* A tracker over two channels with distinct identifiers has been invoked
\* at least twice.
C16_Witness ==
    /\ tracker.created
    /\ DistinctChannels
    /\ Len(benchmarks) >= 2
    /\ Len(delivered) >= 2

\* sum_i (a_i * x_i - b_i * x_i^2) over the channel records of the call
TotalConversions(x) ==
    SumSeq([i \in 1..Len(benchmarks) |->
               (benchmarks[i].curve_a * x[i]) - (benchmarks[i].curve_b * x[i] * x[i])])

\* number of records among the first i that carry the identifier of record i
RankOfRecord(i) ==
    Cardinality({ j \in 1..i : benchmarks[j].channel = benchmarks[i].channel })

\* C17: each tracker snapshot is computed from the iterate x passed to that
\* invocation: its objective equals sum_i (a_i*x_i - b_i*x_i^2), the
\* negation of the minimized objective function at x; its budget_error
\* equals total_budget - sum(x), the value of the budget-equality
\* constraint function at x; and the spend recorded for the i-th channel
\* equals x_i (for a repeated identifier the entries of one snapshot follow
\* each other in the series of that identifier, in record order).
C17_SnapshotFromIterate ==
    tracker.created =>
        \A j \in 1..Len(delivered) :
            /\ tracker.objectives[j] = TotalConversions(delivered[j])
            /\ tracker.objectives[j] = 0 - objective(benchmarks, delivered[j])
            /\ tracker.budget_errors[j] = total_budget - SumSeq(delivered[j])
            /\ tracker.budget_errors[j]
                   = budget_constraint(formulation.budget, delivered[j])
            /\ \A i \in 1..Len(benchmarks) :
                  LET m == RankOfRecord(CHOOSE l \in 1..Len(benchmarks) :
                               /\ benchmarks[l].channel = benchmarks[i].channel
                               /\ \A l2 \in (l + 1)..Len(benchmarks) :
                                     benchmarks[l2].channel # benchmarks[i].channel)
                  IN tracker.spend_history[benchmarks[i].channel]
                         [((j - 1) * m) + RankOfRecord(i)] = delivered[j][i]
            /\ DistinctChannels =>
                  \A i \in 1..Len(benchmarks) :
                      tracker.spend_history[benchmarks[i].channel][j]
                          = delivered[j][i]

\* A tracker over two channels has recorded two different iterates, with
\* a budget error that is not zero.
C17_Witness ==
    /\ tracker.created
    /\ DistinctChannels
    /\ Len(benchmarks) >= 2
    /\ Len(delivered) >= 2
    /\ delivered[1] # delivered[2]
    /\ tracker.budget_errors[2] # 0
    /\ tracker.objectives[1] # tracker.objectives[2]

\* C19: solve_qp never mutates its inputs: on every outcome (returned
\* allocation or any of the failures) the channel records and their order
\* are the same after the call as before it; so every step of a call leaves
\* them as they are, and the records the tracker refers to are the caller's.
C19_InputsNeverMutated ==
    [][ /\ benchmarks' = benchmarks
        /\ total_budget' = total_budget
        /\ track_history' = track_history
        /\ tracker'.created => tracker'.benchmarks = benchmarks ]_vars

\* A tracked call on two channel records has run the solver and ended.
C19_Witness ==
    /\ pc = "done"
    /\ track_history
    /\ Len(benchmarks) >= 2
    /\ delivered # <<>>
    /\ result.present

-----------------------------------------------------------------------------
(* Properties of the tracker object (specification SpecTracker) *)

IsPrefix(s, t) == Len(s) <= Len(t) /\ \A i \in 1..Len(s) : s[i] = t[i]

\* every series of h is an initial part of the same series of g
HistoryPrefix(h, g) ==
    /\ IsPrefix(h.iteration, g.iteration)
    /\ IsPrefix(h.objective, g.objective)
    /\ IsPrefix(h.budget_error, g.budget_error)
    /\ DOMAIN h.spend = DOMAIN g.spend
    /\ \A c \in DOMAIN h.spend : IsPrefix(h.spend[c], g.spend[c])

\* the step is one invocation of the tracker
InvocationStep == Len(delivered') = Len(delivered) + 1

\* the step adds one snapshot at the end and keeps every earlier one
OneSnapshotAppended ==
    /\ tracker'.iterations = Append(tracker.iterations, Len(tracker.iterations) + 1)
    /\ Len(tracker'.objectives) = Len(tracker.objectives) + 1
    /\ Len(tracker'.budget_errors) = Len(tracker.budget_errors) + 1
    /\ HistoryPrefix(get_history(tracker), get_history(tracker'))
    /\ DistinctChannels =>
          \A c \in DOMAIN tracker.spend_history :
              Len(tracker'.spend_history[c]) = Len(tracker.spend_history[c]) + 1

\* C20 as stated: each tracker invocation adds exactly one snapshot at the
\* end and leaves every earlier snapshot unchanged, and a history obtained
\* from get_history is not changed by any later tracker invocation or
\* later solve call.
C20_ObtainedHistoryFrozen ==
    [][ /\ InvocationStep => OneSnapshotAppended
        /\ obtained.taken => obtained'.seen = obtained.seen ]_vars

\* C20 amended: each tracker invocation adds exactly one snapshot at the
\* end and leaves every earlier snapshot unchanged; a history obtained from
\* get_history keeps every snapshot it held when it was returned and is
\* not changed by the tracker of a later solve call, but it holds the lists
\* of the tracker it came from, so that a later invocation of that same
\* tracker appends its snapshot to the obtained history as well.
C20_HistoryAppendOnly ==
    [][ /\ InvocationStep => OneSnapshotAppended
        /\ obtained.taken =>
              /\ obtained'.at_return = obtained.at_return
              /\ HistoryPrefix(obtained.at_return, obtained'.seen)
              /\ HistoryPrefix(obtained.seen, obtained'.seen)
        /\ (obtained.taken /\ ~obtained.live) => obtained'.seen = obtained.seen
        /\ (obtained.taken /\ obtained.live /\ InvocationStep) =>
              /\ obtained'.seen = get_history(tracker')
              /\ obtained'.seen # obtained.seen ]_vars

\* A history was obtained after a first snapshot, and the tracker it came
\* from has been invoked again.
C20_Witness ==
    /\ obtained.taken
    /\ obtained.live
    /\ obtained.at_return.iteration # <<>>
    /\ Len(obtained.seen.iteration) > Len(obtained.at_return.iteration)

-----------------------------------------------------------------------------
(* Properties of two calls (specification SpecCalls) *)

BothDone == pc = "done" /\ other.pc = "done"

SameProblem ==
    /\ benchmarks = other.benchmarks
    /\ total_budget = other.total_budget

Failure(type, text, message) ==
    [status |-> "raised",
     error |-> [type |-> type, text |-> text, message |-> message],
     returned |-> NothingReturned]

RECURSIVE Replay(_, _)
\* the tracker t after it has been invoked with the iterates xs in turn
Replay(t, xs) == IF xs = <<>> THEN t ELSE Replay(TrackerCall(t, Head(xs)), Tail(xs))

\* a tracker with no snapshot, for the channel records b and the budget
EmptyTrackerFor(b, budget) ==
    [created |-> TRUE, benchmarks |-> b, total_budget |-> budget,
     channel_names |-> [i \in 1..Len(b) |-> b[i].channel],
     iterations |-> <<>>, objectives |-> <<>>, budget_errors |-> <<>>,
     spend_history |-> [c \in Channels(b) |-> <<>>], iteration_count |-> 0]

\* the history of a call made alone with the solver o
AloneHistory(b, budget, o) ==
    get_history(Replay(EmptyTrackerFor(b, budget),
                       [j \in 1..o.iters |-> OracleIterate(o, b)]))

\* the outcome of solve_qp(b, budget, track) made alone with the solver o
AloneOutcome(b, budget, track, o) ==
    IF b = <<>>
    THEN Failure("ValueError", "Need at least one channel to optimize", "")
    ELSE IF budget <= 0
    THEN Failure("ValueError", "Budget must be > 0", "")
    ELSE IF SumSeq([i \in 1..Len(b) |-> b[i].min_spend]) > budget
    THEN Failure("ValueError", "Budget too small for min spends", "")
    ELSE IF SumSeq([i \in 1..Len(b) |-> b[i].max_spend]) = 0
    THEN Failure("ZeroDivisionError", "division by zero", "")
    ELSE IF \E i \in 1..Len(b) : b[i].min_spend > b[i].max_spend
    THEN Failure("ValueError", "SLSQP Error: lb > ub in bounds", "")
    ELSE LET res == OracleResult(o, b, initial_guess(b, budget))
             allocation == package_allocation(b, res.x)
         IN IF ~res.success
            THEN Failure("RuntimeError", "Optimization failed", res.message)
            ELSE IF validate_solution(allocation, b, budget) # "True"
            THEN Failure("RuntimeError", "Solution doesn't meet constraints", "")
            ELSE [status |-> "returned", error |-> NoError,
                  returned |->
                      [allocation |-> allocation, has_history |-> track,
                       history |-> IF track THEN AloneHistory(b, budget, o)
                                            ELSE NoHistory]]

\* the call c has ended as it ends when it is made alone, and its history
\* holds the iterates the solver passed to this call and no others
EndsAsAlone(c) ==
    c.pc = "done" =>
        /\ [status |-> c.status, error |-> c.error, returned |-> c.returned]
               = AloneOutcome(c.benchmarks, c.total_budget, c.track_history, oracle)
        /\ c.returned.has_history =>
              /\ c.returned.history
                     = get_history(Replay(EmptyTrackerFor(c.benchmarks, c.total_budget),
                                          c.delivered))
              /\ Len(c.returned.history.iteration) = Len(c.delivered)
              /\ \A j \in 1..Len(c.delivered) : c.returned.history.iteration[j] = j

FeasibleRegion ==
    /\ total_min_spend(benchmarks) <= total_budget
    /\ total_budget <= total_max(benchmarks)

\* C27 (as stated): whenever the feasible region is non-empty every component
\* of the initial iterate satisfies min_spend_i <= x0_i <= max_spend_i.
C27_InitialIterateWithinBounds ==
    (x0.computed /\ FeasibleRegion) =>
        \A i \in 1..Len(benchmarks) :
            /\ benchmarks[i].min_spend * x0.den <= x0.num[i]
            /\ x0.num[i] <= benchmarks[i].max_spend * x0.den

\* C27 (amended): whenever the feasible region is non-empty the initial
\* iterate sums to total_budget and every component satisfies
\* 0 <= x0_i <= max_spend_i; the lower bound min_spend_i is not guaranteed.
C27_InitialIterateBelowUpperBounds ==
    (x0.computed /\ FeasibleRegion) =>
        /\ SumSeq(x0.num) = total_budget * x0.den
        /\ \A i \in 1..Len(benchmarks) :
              /\ 0 <= x0.num[i]
              /\ x0.num[i] <= benchmarks[i].max_spend * x0.den

\* The feasible region is non-empty and a component of the initial iterate
\* lies below its channel's min_spend.
C27_Witness ==
    /\ x0.computed
    /\ FeasibleRegion
    /\ \E i \in 1..Len(benchmarks) :
          /\ benchmarks[i].min_spend <= benchmarks[i].max_spend
          /\ x0.num[i] < benchmarks[i].min_spend * x0.den

\* C24: every solve_qp call terminates: after finitely many solver
\* iterations and tracker invocations it either returns its result or raises
\* one of its failures.
C24_CallTerminates ==
    <>(pc = "done" /\ status \in {"returned", "raised"})

\* A tracked call came to its end after the solver used every iteration it
\* is allowed, the tracker having been invoked on each.
C24_Witness ==
    /\ pc = "done"
    /\ status \in {"returned", "raised"}
    /\ solver_calls = 1
    /\ majiter > 1
    /\ tracker.created
    /\ Len(tracker.iterations) = majiter

-----------------------------------------------------------------------------
(* Specification: the functions of src/features/curves.py called directly, *)
(* as the tests, the CLI and the plots call them, on any parameters (zero  *)
(* and negative ones included) and any list of spend levels.               *)

MaxCurveParam == 6
MaxLevels == 2
MaxSpendLevel == 3

CurveParams == (0 - 1)..MaxCurveParam

SpendLevelLists == UNION { [1..n -> 0..MaxSpendLevel] : n \in 0..MaxLevels }

NotCalled == [called |-> FALSE, raised |-> "", text |-> "", value |-> <<>>]

\* the solve_qp variables of a behaviour in which solve_qp is not called
SolveIdle ==
    /\ benchmarks = <<>>
    /\ total_budget = 0
    /\ track_history = FALSE
    /\ pc = "idle"
    /\ formulation = NoFormulation
    /\ x0 = NoX0
    /\ tracker = NoTracker
    /\ solver_calls = 0
    /\ majiter = 0
    /\ result = NoResult
    /\ status = "running"
    /\ error = NoError
    /\ returned = NothingReturned
    /\ candidate = NoCandidate
    /\ verdict = ""
    /\ delivered = <<>>
    /\ oracle = FreeSolver
    /\ other = NoCall
    /\ obtained = NotObtained

solvevars == <<benchmarks, total_budget, track_history, pc, formulation, x0,
               tracker, solver_calls, majiter, result, status, error, returned,
               candidate, verdict, delivered, oracle, other, obtained>>

InitCurves ==
    /\ SolveIdle
    /\ call \in [fn : {"curves"}, a : CurveParams, b : CurveParams,
                  spend_levels : SpendLevelLists]
    /\ outcome = [batch |-> NotCalled, grad |-> NotCalled]

\* conversions_at_spend_levels(spend_levels, a, b)
ConversionsAtSpendLevels ==
    /\ call.fn = "curves"
    /\ ~outcome.batch.called
    /\ outcome' = [outcome EXCEPT !.batch =
                       conversions_at_spend_levels(call.spend_levels, call.a, call.b)]
    /\ UNCHANGED call
    /\ UNCHANGED solvevars

\* quad_grad(spend, a, b) for every spend of the list
QuadGrad ==
    /\ call.fn = "curves"
    /\ ~outcome.grad.called
    /\ outcome' = [outcome EXCEPT !.grad =
                       [called |-> TRUE, raised |-> "", text |-> "",
                        value |-> [j \in 1..Len(call.spend_levels) |->
                                      quad_grad(call.spend_levels[j], call.a, call.b)]]]
    /\ UNCHANGED call
    /\ UNCHANGED solvevars

NextCurves ==
    \/ ConversionsAtSpendLevels
    \/ QuadGrad

SpecCurves == InitCurves /\ [][NextCurves]_vars

\* C21: diminishing positive returns: for a > 0, b > 0 and any two spends
\* s1 < s2 in [0, a/(2b)), quad_conversions(s1,a,b) < quad_conversions(s2,a,b)
\* and quad_grad(s1,a,b) > quad_grad(s2,a,b) > 0, where quad_conversions is
\* a*s - b*s^2 and quad_grad is a - 2*b*s.
C21_DiminishingPositiveReturns ==
    (outcome.batch.called /\ outcome.grad.called /\ call.a > 0 /\ call.b > 0) =>
        LET s == call.spend_levels
            conv == outcome.batch.value
            grad == outcome.grad.value
        IN /\ \A j \in 1..Len(s) :
                 /\ conv[j] = (call.a * s[j]) - (call.b * s[j] * s[j])
                 /\ grad[j] = call.a - (2 * call.b * s[j])
           /\ \A i, j \in 1..Len(s) :
                 (s[i] < s[j] /\ 0 <= s[i] /\ 2 * call.b * s[j] < call.a) =>
                     /\ conv[i] < conv[j]
                     /\ grad[i] > grad[j]
                     /\ grad[j] > 0

\* Conversions and marginal returns were computed at two spends s1 < s2
\* below a/(2b), s2 being the last spend level below it.
C21_Witness ==
    /\ outcome.batch.called
    /\ outcome.grad.called
    /\ call.a > 0
    /\ call.b > 0
    /\ Len(call.spend_levels) = 2
    /\ 0 < call.spend_levels[1]
    /\ call.spend_levels[1] < call.spend_levels[2]
    /\ 2 * call.b * call.spend_levels[2] < call.a
    /\ 2 * call.b * (call.spend_levels[2] + 1) >= call.a

\* C22: conversions_at_spend_levels(spend_levels, a, b) fails with the
\* invalid-parameter error exactly when a <= 0 or b <= 0 (zero included,
\* even for an empty spend_levels); otherwise it returns a list of the same
\* length as spend_levels whose j-th element is
\* quad_conversions(spend_levels[j], a, b), in the same order.
C22_BatchFailsIffInvalid ==
    outcome.batch.called =>
        /\ (outcome.batch.raised # "") <=> (call.a <= 0 \/ call.b <= 0)
        /\ outcome.batch.raised # "" =>
              /\ outcome.batch.raised = "ValueError"
              /\ outcome.batch.text = "Invalid curve parameters"
        /\ outcome.batch.raised = "" =>
              /\ Len(outcome.batch.value) = Len(call.spend_levels)
              /\ \A j \in 1..Len(call.spend_levels) :
                    outcome.batch.value[j]
                        = quad_conversions(call.spend_levels[j], call.a, call.b)

\* The call failed on an empty list of spend levels with b = 0.
C22_Witness ==
    /\ outcome.batch.called
    /\ call.spend_levels = <<>>
    /\ call.a > 0
    /\ call.b = 0
    /\ outcome.batch.raised = "ValueError"

-----------------------------------------------------------------------------
(* Specification: src/data/synth.py, generate_channel_benchmarks called on *)
(* a configuration.  Metrics and curve parameters are exact fractions      *)
(* [n, d] in lowest terms with d > 0; a draw of random.uniform is any      *)
(* value of the configured range.                                          *)

MaxConfigChannels == 2

RECURSIVE GCD(_, _)
GCD(m, n) == IF n = 0 THEN m ELSE GCD(n, m % n)

Rat(n, d) == LET g == GCD(Abs(n), d) IN [n |-> n \div g, d |-> d \div g]

RatMul(p, q) == Rat(p.n * q.n, p.d * q.d)

\* q > 0
RatDiv(p, q) == Rat(p.n * q.d, p.d * q.n)

RatSub(p, q) == Rat((p.n * q.d) - (q.n * p.d), p.d * q.d)

RatLess(p, q) == p.n * q.d < q.n * p.d

Whole(k) == [n |-> k, d |-> 1]

\* multipliers in tenths, saturation rates in hundredths
CHANNEL_PROFILES ==
    [google |-> [cpc_multiplier |-> 10, ctr_multiplier |-> 20,
                 cvr_multiplier |-> 20, saturation_rate |-> 20],
     meta   |-> [cpc_multiplier |-> 13, ctr_multiplier |-> 10,
                 cvr_multiplier |-> 12, saturation_rate |-> 10],
     tiktok |-> [cpc_multiplier |-> 5, ctr_multiplier |-> 14,
                 cvr_multiplier |-> 15, saturation_rate |-> 15],
     reddit |-> [cpc_multiplier |-> 8, ctr_multiplier |-> 10,
                 cvr_multiplier |-> 12, saturation_rate |-> 25],
     x      |-> [cpc_multiplier |-> 7, ctr_multiplier |-> 10,
                 cvr_multiplier |-> 10, saturation_rate |-> 35]]

\* CHANNEL_PROFILES.get(channel_name, {}) with the defaults of the .get calls
ProfileOf(channel_name) ==
    IF channel_name \in DOMAIN CHANNEL_PROFILES
    THEN CHANNEL_PROFILES[channel_name]
    ELSE [cpc_multiplier |-> 10, ctr_multiplier |-> 10,
          cvr_multiplier |-> 10, saturation_rate |-> 30]

\* the values random.uniform can draw from the three configured ranges
sample_base_metrics(config) ==
    [cpc : config.cpc_range[1]..config.cpc_range[2],
     ctr : config.ctr_range[1]..config.ctr_range[2],
     cvr : config.cvr_range[1]..config.cvr_range[2]]

channel_adjustments(base_metrics, channel_name) ==
    [cpc |-> RatMul(Whole(base_metrics.cpc), Rat(ProfileOf(channel_name).cpc_multiplier, 10)),
     ctr |-> RatMul(Whole(base_metrics.ctr), Rat(ProfileOf(channel_name).ctr_multiplier, 10)),
     cvr |-> RatMul(Whole(base_metrics.cvr), Rat(ProfileOf(channel_name).cvr_multiplier, 10))]

NoParams == [raised |-> "ZeroDivisionError", a |-> Whole(0), b |-> Whole(0)]

\* Mutant: the curvature is a / max_spend, whatever the saturation rate.
derive_quad_params_full_saturation(cpc, ctr, cvr, max_spend, saturation_rate) ==
    IF cpc.n = 0 \/ max_spend = 0
    THEN NoParams
    ELSE LET a == RatDiv(RatMul(ctr, cvr), cpc)
         IN [raised |-> "", a |-> a, b |-> RatDiv(a, Whole(max_spend))]

\* saturation_rate in hundredths
derive_quad_params(cpc, ctr, cvr, max_spend, saturation_rate) ==
    IF cpc.n = 0 \/ max_spend = 0
    THEN NoParams
    ELSE LET a == RatDiv(RatMul(ctr, cvr), cpc)
         IN [raised |-> "", a |-> a,
             b |-> RatDiv(RatMul(a, Rat(saturation_rate, 100)), Whole(max_spend))]

\* the body of the loop of generate_channel_benchmarks for one channel
GeneratedRecord(ch, base_metrics) ==
    LET metrics == channel_adjustments(base_metrics, ch.name)
        params == derive_quad_params(metrics.cpc, metrics.ctr, metrics.cvr,
                                     ch.max_spend, ProfileOf(ch.name).saturation_rate)
    IN [raised |-> params.raised,
        record |-> [channel |-> ch.name, cpc |-> metrics.cpc, ctr |-> metrics.ctr,
                    cvr |-> metrics.cvr, min_spend |-> ch.min_spend,
                    max_spend |-> ch.max_spend,
                    curve_a |-> params.a, curve_b |-> params.b]]

\* draws[i] is what sample_base_metrics drew for the i-th channel
generate_channel_benchmarks(config, draws) ==
    LET made == [i \in 1..Len(config.channels) |->
                    GeneratedRecord(config.channels[i], draws[i])]
    IN IF \E i \in 1..Len(made) : made[i].raised # ""
       THEN [done |-> TRUE, raised |-> "ZeroDivisionError", benchmarks |-> <<>>]
       ELSE [done |-> TRUE, raised |-> "",
             benchmarks |-> [i \in 1..Len(made) |-> made[i].record]]

ConfigChannelPool ==
    { [name |-> "google", min_spend |-> 1, max_spend |-> 2],
      [name |-> "meta",   min_spend |-> 0, max_spend |-> 1],
      [name |-> "tiktok", min_spend |-> 0, max_spend |-> 3],
      [name |-> "reddit", min_spend |-> 1, max_spend |-> 1],
      [name |-> "x",      min_spend |-> 0, max_spend |-> 2],
      [name |-> "twitch", min_spend |-> 0, max_spend |-> 2],
      [name |-> "google", min_spend |-> 0, max_spend |-> 0] }

MetricRanges == { <<0, 1>>, <<1, 2>> }

Configs ==
    [fn : {"synth"},
     channels : UNION { [1..n -> ConfigChannelPool] : n \in 1..MaxConfigChannels },
     cpc_range : MetricRanges, ctr_range : MetricRanges, cvr_range : MetricRanges]

InitSynth ==
    /\ SolveIdle
    /\ call \in Configs
    /\ outcome = [done |-> FALSE, raised |-> "", benchmarks |-> <<>>]

GenerateChannelBenchmarks ==
    /\ call.fn = "synth"
    /\ ~outcome.done
    /\ \E draws \in [1..Len(call.channels) -> sample_base_metrics(call)] :
          outcome' = generate_channel_benchmarks(call, draws)
    /\ UNCHANGED call
    /\ UNCHANGED solvevars

NextSynth == GenerateChannelBenchmarks

SpecSynth == InitSynth /\ [][NextSynth]_vars

PositiveRanges ==
    /\ call.cpc_range[1] > 0
    /\ call.ctr_range[1] > 0
    /\ call.cvr_range[1] > 0

\* the marginal return at the upper bound, curve_a - 2 * curve_b * max_spend
MarginalAtMax(rec) ==
    RatSub(rec.curve_a, RatMul(Whole(2 * rec.max_spend), rec.curve_b))

\* C25: for every channel generated from a config with positive cpc/ctr/cvr
\* ranges and max_spend > 0: curve_a > 0, curve_b > 0, and the marginal
\* return at the upper bound, curve_a - 2*curve_b*max_spend, is strictly
\* positive, strictly less than curve_a, and equal to
\* curve_a * (1 - 2 * saturation_rate) for the channel's saturation rate.
C25_GeneratedCurvesStayIncreasing ==
    (outcome.done /\ PositiveRanges
        /\ \A i \in 1..Len(call.channels) : call.channels[i].max_spend > 0) =>
        /\ outcome.raised = ""
        /\ Len(outcome.benchmarks) = Len(call.channels)
        /\ \A i \in 1..Len(outcome.benchmarks) :
              LET rec == outcome.benchmarks[i]
                  sat == ProfileOf(rec.channel).saturation_rate
              IN /\ rec.channel = call.channels[i].name
                 /\ rec.max_spend = call.channels[i].max_spend
                 /\ RatLess(Whole(0), rec.curve_a)
                 /\ RatLess(Whole(0), rec.curve_b)
                 /\ RatLess(Whole(0), MarginalAtMax(rec))
                 /\ RatLess(MarginalAtMax(rec), rec.curve_a)
                 /\ MarginalAtMax(rec)
                       = RatMul(rec.curve_a, Rat(100 - (2 * sat), 100))

\* Benchmarks were generated from positive ranges for the channel with the
\* highest saturation rate and for a channel without a profile.
C25_Witness ==
    /\ outcome.done
    /\ outcome.raised = ""
    /\ PositiveRanges
    /\ Len(outcome.benchmarks) = 2
    /\ outcome.benchmarks[1].channel = "x"
    /\ outcome.benchmarks[2].channel = "twitch"
    /\ outcome.benchmarks[1].curve_a # outcome.benchmarks[2].curve_a

-----------------------------------------------------------------------------
(* Specification: src/cli.py, cmd_optimize: the command chooses the budget *)
(* from the command line and the configuration and calls solve_qp with it. *)

\* values of --budget (type=float), on the scale of Budgets
ArgBudgets == {0 - 1, 0, 1, 3}

\* values of budget.total in the configuration file
ConfigTotals == {2, 5}

\* the default of config.get("budget", {}).get("total", 1000): a positive
\* budget, on the scale of Budgets
DefaultTotal == 4

Commands ==
    { c \in [fn : {"optimize"}, benchmarks_exist : BOOLEAN,
             budget_given : BOOLEAN, budget : ArgBudgets \cup {0},
             total_given : BOOLEAN, total : ConfigTotals \cup {0}] :
          /\ ~c.budget_given => c.budget = 0
          /\ c.total_given <=> c.total # 0 }

\* config.get("budget", {}).get("total", 1000)
ConfigTotal(c) == IF c.total_given THEN c.total ELSE DefaultTotal

\* args.budget or ...: None and 0.0 are false
ChosenBudget(c) ==
    IF c.budget_given /\ c.budget # 0 THEN c.budget ELSE ConfigTotal(c)

InitCli ==
    /\ benchmarks \in CallLists
    /\ total_budget = 0
    /\ track_history \in BOOLEAN
    /\ pc = "cli"
    /\ formulation = NoFormulation
    /\ x0 = NoX0
    /\ tracker = NoTracker
    /\ solver_calls = 0
    /\ majiter = 0
    /\ result = NoResult
    /\ status = "running"
    /\ error = NoError
    /\ returned = NothingReturned
    /\ candidate = NoCandidate
    /\ verdict = ""
    /\ delivered = <<>>
    /\ oracle = FreeSolver
    /\ other = NoCall
    /\ obtained = NotObtained
    /\ call \in Commands
    /\ outcome = NoOutcome

\* cmd_optimize up to its call of solve_qp
CmdOptimize ==
    /\ pc = "cli"
    /\ call.fn = "optimize"
    /\ IF ~call.benchmarks_exist
       THEN /\ Raise("FileNotFoundError", "Benchmarks file not found", "")
            /\ UNCHANGED total_budget
       ELSE /\ total_budget' = ChosenBudget(call)
            /\ pc' = "start"
            /\ UNCHANGED <<status, error, returned>>
    /\ UNCHANGED <<benchmarks, track_history, formulation, x0, tracker,
                   solver_calls, majiter, result, candidate, verdict, delivered,
                   oracle, other, obtained, call, outcome>>

NextCli ==
    \/ CmdOptimize
    \/ EagerChecks
    \/ BuildProblem
    \/ CallMinimize
    \/ MajorIteration
    \/ MinimizeReturns

SpecCli == InitCli /\ [][NextCli]_vars

\* solve_qp was called by the command
SolveCalled == call.fn = "optimize" /\ pc \notin {"cli"} /\ call.benchmarks_exist

\* C26: whenever --budget is given on the command line that value is the
\* total_budget passed to solve_qp (so a non-positive --budget is rejected
\* with 'Budget must be > 0'); only when --budget is absent is the config's
\* budget.total used.
C26_CommandLineBudgetOverrides ==
    SolveCalled =>
        /\ call.budget_given => total_budget = call.budget
        /\ ~call.budget_given => total_budget = ConfigTotal(call)
        /\ (call.budget_given /\ call.budget <= 0 /\ pc = "done") =>
              /\ status = "raised"
              /\ error.text = "Budget must be > 0"

\* --budget 0 was given, and solve_qp returned an allocation of the
\* configuration's budget.
C26_Witness ==
    /\ SolveCalled
    /\ call.budget_given
    /\ call.budget = 0
    /\ call.total_given
    /\ total_budget = call.total
    /\ pc = "done"
    /\ status = "returned"

-----------------------------------------------------------------------------
(* Specification: src/utils/animation.py, _get_frame_indices called with   *)
(* the number of recorded iterations and the --max-frames of the command   *)
(* line (an integer, or absent).                                           *)

MaxIterations == 8

\* the least --max-frames drawn
MinFrames == 0 - 2

FrameCalls ==
    { c \in [fn : {"frames"}, n_iterations : 0..MaxIterations,
             max_frames_given : BOOLEAN,
             max_frames : MinFrames..(MaxIterations + 1)] :
          ~c.max_frames_given => c.max_frames = 0 }

\* list(range(n))
Range(n) == [i \in 1..n |-> i - 1]

\* step = n_iterations / max_frames and int(i * step) for i in
\* range(max_frames): the whole part of i * n_iterations / max_frames
get_frame_indices(n_iterations, max_frames_given, max_frames) ==
    IF ~max_frames_given \/ max_frames >= n_iterations
    THEN [done |-> TRUE, raised |-> "", indices |-> Range(n_iterations)]
    ELSE IF max_frames = 0
    THEN [done |-> TRUE, raised |-> "ZeroDivisionError", indices |-> <<>>]
    ELSE IF max_frames < 0
    THEN [done |-> TRUE, raised |-> "IndexError", indices |-> <<>>]
    ELSE LET indices == [i \in 1..max_frames |->
                            ((i - 1) * n_iterations) \div max_frames]
         IN [done |-> TRUE, raised |-> "",
             indices |-> IF indices[max_frames] # n_iterations - 1
                         THEN [indices EXCEPT ![max_frames] = n_iterations - 1]
                         ELSE indices]

InitFrames ==
    /\ SolveIdle
    /\ call \in FrameCalls
    /\ outcome = [done |-> FALSE, raised |-> "", indices |-> <<>>]

GetFrameIndices ==
    /\ call.fn = "frames"
    /\ ~outcome.done
    /\ outcome' = get_frame_indices(call.n_iterations, call.max_frames_given,
                                    call.max_frames)
    /\ UNCHANGED call
    /\ UNCHANGED solvevars

NextFrames == GetFrameIndices

SpecFrames == InitFrames /\ [][NextFrames]_vars

\* C28: for every n_iterations >= 1 and every max_frames (absent, or any
\* integer) _get_frame_indices returns a non-empty, strictly increasing list
\* of indices within 0..n_iterations-1 whose last element is n_iterations-1;
\* it is the full list 0..n_iterations-1 when max_frames is absent or
\* >= n_iterations, and has exactly max_frames elements otherwise.
C28_FramesEndWithFinalIterate ==
    (outcome.done /\ call.n_iterations >= 1) =>
        LET idx == outcome.indices
            n == call.n_iterations
        IN /\ outcome.raised = ""
           /\ Len(idx) >= 1
           /\ \A i \in 1..Len(idx) : idx[i] \in 0..(n - 1)
           /\ \A i \in 1..(Len(idx) - 1) : idx[i] < idx[i + 1]
           /\ idx[Len(idx)] = n - 1
           /\ IF ~call.max_frames_given \/ call.max_frames >= n
              THEN idx = Range(n)
              ELSE Len(idx) = call.max_frames

\* The function was called with --max-frames 0 on a recorded history and
\* raised instead of returning a list.
C28_Witness ==
    /\ outcome.done
    /\ call.n_iterations >= 1
    /\ call.max_frames_given
    /\ call.max_frames = 0
    /\ outcome.raised = "ZeroDivisionError"

-----------------------------------------------------------------------------
(* Specification: one call of solve_qp whose budget lies above the sum of  *)
(* all max_spend by (n + 1) * tolerance or more, n the number of channels. *)

OverBy == 2

\* the budget from which on no vector within the bounds can pass the
\* budget test of validate_solution
OverBudget(b) == total_max(b) + ((Len(b) + 1) * tolerance)

InitOver ==
    /\ benchmarks \in BenchmarkLists
    /\ total_budget \in { OverBudget(benchmarks) + d : d \in 0..OverBy }
    /\ track_history \in BOOLEAN
    /\ pc = "start"
    /\ formulation = NoFormulation
    /\ x0 = NoX0
    /\ tracker = NoTracker
    /\ solver_calls = 0
    /\ majiter = 0
    /\ result = NoResult
    /\ status = "running"
    /\ error = NoError
    /\ returned = NothingReturned
    /\ candidate = NoCandidate
    /\ verdict = ""
    /\ delivered = <<>>
    /\ oracle = FreeSolver
    /\ other = NoCall
    /\ obtained = NotObtained
    /\ call = NoHelperCall
    /\ outcome = NoOutcome

SpecOver == InitOver /\ [][Next]_vars

\* the budget exceeds the sum of all max_spend by more than (n+1) * 1e-6
OverBudgeted == total_budget > OverBudget(benchmarks)

\* at least one channel, no min_spend above its max_spend, some max_spend > 0
WellFormedBounds ==
    /\ benchmarks # <<>>
    /\ \A i \in 1..Len(benchmarks) :
          benchmarks[i].min_spend <= benchmarks[i].max_spend
    /\ total_max(benchmarks) > 0

SolverFailures == {"Optimization failed", "Solution doesn't meet constraints"}

\* C29 (as stated): if total_budget exceeds the sum of all max_spend by more
\* than (n+1)*1e-6, solve_qp invokes the numerical solver and then always
\* fails with the optimization-failed or the solution-invalid error; it
\* never returns an allocation.
C29_OverBudgetFailsInSolver ==
    OverBudgeted =>
        /\ status # "returned"
        /\ pc = "done" =>
              /\ solver_calls = 1
              /\ status = "raised"
              /\ error.text \in SolverFailures

\* C29 (amended): if total_budget exceeds the sum of all max_spend by more
\* than (n+1)*1e-6, solve_qp never returns an allocation; when the bounds
\* are well formed it invokes the numerical solver once and then fails with
\* the optimization-failed or the solution-invalid error.
C29_OverBudgetNeverReturns ==
    OverBudgeted =>
        /\ status # "returned"
        /\ pc = "done" => status = "raised"
        /\ (pc = "done" /\ WellFormedBounds) =>
              /\ solver_calls = 1
              /\ error.text \in SolverFailures

\* An over-budgeted call with well-formed bounds ended with the
\* solution-invalid error although the solver reported success with every
\* channel within its bounds.
C29_Witness ==
    /\ OverBudgeted
    /\ WellFormedBounds
    /\ pc = "done"
    /\ solver_calls = 1
    /\ result.success
    /\ check_channel_bounds(package_allocation(benchmarks, result.x), benchmarks, 1) = "True"
    /\ error.text = "Solution doesn't meet constraints"

-----------------------------------------------------------------------------
(* Specification: one call of solve_qp whose budget equals the sum of all  *)
(* min_spend.  The records have minimums above the tolerance; two of them  *)
(* carry the same channel name, one has no room at all.                    *)

PinnedPool ==
    { [channel |-> "google", curve_a |-> 6, curve_b |-> 1, min_spend |-> 0, max_spend |-> 6],
      [channel |-> "google", curve_a |-> 5, curve_b |-> 1, min_spend |-> 5, max_spend |-> 6],
      [channel |-> "meta",   curve_a |-> 4, curve_b |-> 1, min_spend |-> 1, max_spend |-> 3],
      [channel |-> "reddit", curve_a |-> 3, curve_b |-> 1, min_spend |-> 1, max_spend |-> 0] }

PinnedLists == UNION { [1..n -> PinnedPool] : n \in 1..MaxChannels }

InitPinned ==
    /\ benchmarks \in PinnedLists
    /\ total_budget = total_min_spend(benchmarks)
    /\ track_history \in BOOLEAN
    /\ pc = "start"
    /\ formulation = NoFormulation
    /\ x0 = NoX0
    /\ tracker = NoTracker
    /\ solver_calls = 0
    /\ majiter = 0
    /\ result = NoResult
    /\ status = "running"
    /\ error = NoError
    /\ returned = NothingReturned
    /\ candidate = NoCandidate
    /\ verdict = ""
    /\ delivered = <<>>
    /\ oracle = FreeSolver
    /\ other = NoCall
    /\ obtained = NotObtained
    /\ call = NoHelperCall
    /\ outcome = NoOutcome

SpecPinned == InitPinned /\ [][Next]_vars

\* the eager checks let the call pass with a budget equal to the minimums
PinnedProblem ==
    /\ benchmarks # <<>>
    /\ total_budget > 0
    /\ total_min_spend(benchmarks) = total_budget

\* every channel's entry lies within min_spend - 1e-6 and min_spend + n*1e-6
PinnedToMinimum(allocation) ==
    \A i \in 1..Len(benchmarks) :
        /\ benchmarks[i].channel \in DOMAIN allocation
        /\ allocation[benchmarks[i].channel] >= benchmarks[i].min_spend - tolerance
        /\ allocation[benchmarks[i].channel]
              <= benchmarks[i].min_spend + (Len(benchmarks) * tolerance)

\* C30 (as stated): when the sum of all min_spend equals total_budget
\* exactly, solve_qp does not raise the infeasibility error but proceeds to
\* the numerical solve, and any allocation it then returns assigns every
\* one of the n channels a spend no lower than min_spend - 1e-6 and no
\* higher than min_spend + n*1e-6.
C30_EqualityPinsEveryChannel ==
    PinnedProblem =>
        /\ error.text # "Budget too small for min spends"
        /\ pc = "done" => solver_calls = 1
        /\ status = "returned" => PinnedToMinimum(returned.allocation)

\* C30 (amended): when the sum of all min_spend equals total_budget exactly,
\* solve_qp does not raise the infeasibility error; unless every max_spend
\* is zero it proceeds to the numerical solve, and any allocation it then
\* returns for pairwise distinct channel identifiers assigns every channel
\* a spend no lower than min_spend - 1e-6 and no higher than
\* min_spend + n*1e-6.
C30_EqualityPinsDistinctChannels ==
    PinnedProblem =>
        /\ error.text # "Budget too small for min spends"
        /\ (pc = "done" /\ total_max(benchmarks) # 0) => solver_calls = 1
        /\ (status = "returned" /\ DistinctChannels) =>
              PinnedToMinimum(returned.allocation)

\* A call with distinct channels and a budget equal to the minimums
\* returned an allocation that gives one channel exactly
\* min_spend + n*1e-6.
C30_Witness ==
    /\ PinnedProblem
    /\ DistinctChannels
    /\ Len(benchmarks) = 2
    /\ status = "returned"
    /\ \E i \in 1..Len(benchmarks) :
          returned.allocation[benchmarks[i].channel]
              = benchmarks[i].min_spend + (Len(benchmarks) * tolerance)

=============================================================================
